---- MODULE Spec2Model ----
(***************************************************************************)
(* Model of the Compiler Explorer bridge (server.py): the HTTP client's    *)
(* error translation, the two compiler-identity helpers, and the five      *)
(* tools registered on the server.                                         *)
(*                                                                         *)
(* Python strings are modelled as sequences of one-character strings, so   *)
(* that replace(), lower() and strip() are computed character by           *)
(* character.  An Optional value is a record [some, val].                  *)
(***************************************************************************)
EXTENDS Naturals, Sequences, FiniteSets, TLC

VARIABLES
    \* --- get_unversioned_compiler_name, applied to a drawn input
    compiler_name,   \* the display name drawn
    semver,          \* the version token drawn
    unversioned,     \* the successive results: <<f(n)>>, then <<f(n), f(f(n))>>
    \* --- infer_compiler_id, applied to a drawn input
    compiler_name_or_id,  \* the reference drawn
    known,                \* the compiler list drawn
    inferred,             \* <<>> before the call, <<result>> after it
    \* --- one tool invocation
    tool,        \* the tool invoked ("idle" between invocations)
    pc,          \* the handler's position
    args,        \* the invocation's arguments that decide control flow
    requests,    \* the outbound requests of this invocation, in order
    raised,      \* <<e>>: the CompilerExplorerError _make_request raised
    fetched,     \* the JSON values the client returned, in order
    ctx_log,     \* the notifications sent through ctx, in order
    outcome,     \* how the invocation ended: returned, or the exception
    returned     \* <<v>>: the value the tool returned

stripVars == <<compiler_name, semver, unversioned>>
inferVars == <<compiler_name_or_id, known, inferred>>
toolVars  == <<tool, pc, args, requests, raised, fetched, ctx_log, outcome,
              returned>>
vars == <<compiler_name, semver, unversioned, compiler_name_or_id, known,
          inferred, tool, pc, args, requests, raised, fetched, ctx_log,
          outcome, returned>>

----------------------------------------------------------------------------
(* Bounds of the drawn inputs *)

\* longest display name drawn for get_unversioned_compiler_name
MaxDisplayLen == 4
\* longest version token drawn for get_unversioned_compiler_name
MaxSemverLen == 1
\* longest compiler list drawn for infer_compiler_id, and longest listing
\* the remote service answers with
MaxCompilers == 3

----------------------------------------------------------------------------
(* Strings *)

\* all strings over alphabet A of length at most n
StringsUpTo(A, n) == UNION {[1..k -> A] : k \in 0..n}

\* str(...) of a documented example, character by character
Gcc122 == <<"g", "c", "c", "-", "1", "2", ".", "2">>
Semver122 == <<"1", "2", ".", "2">>
GccName == <<"G", "C", "C", " ", "1", "2", ".", "2">>
Gcc == <<"g", "c", "c">>
ClangTrunk == <<"c", "l", "a", "n", "g", " ", "(", "t", "r", "u", "n", "k", ")">>
SemverTrunk == <<"(", "t", "r", "u", "n", "k", ")">>
IrClangTrunk == <<"i", "r", "c", "l", "a", "n", "g", "t", "r", "u", "n", "k">>

\* the characters str.strip() removes (no argument: whitespace)
Whitespace == {" ", "\t", "\n"}

\* str.lower() on one character
LowerChar(c) ==
    CASE c = "G" -> "g"
      [] c = "C" -> "c"
      [] c = "L" -> "l"
      [] c = "A" -> "a"
      [] c = "N" -> "n"
      [] OTHER -> c

\* str.lower()
Lower(s) == [i \in 1..Len(s) |-> LowerChar(s[i])]

RECURSIVE LStrip(_)
LStrip(s) ==
    IF s # <<>> /\ Head(s) \in Whitespace THEN LStrip(Tail(s)) ELSE s

RECURSIVE RStrip(_)
RStrip(s) ==
    IF s # <<>> /\ s[Len(s)] \in Whitespace
    THEN RStrip(SubSeq(s, 1, Len(s) - 1))
    ELSE s

\* str.strip()
Strip(s) == RStrip(LStrip(s))

\* whether old occurs in s at position i
OccursAt(s, old, i) ==
    /\ i + Len(old) - 1 <= Len(s)
    /\ SubSeq(s, i, i + Len(old) - 1) = old

\* `old in s` for a non-empty old
Contains(s, old) == \E i \in 1..Len(s) : OccursAt(s, old, i)

\* str.replace(old, ""): one left-to-right pass over the non-overlapping
\* occurrences; an empty old inserts "" between the characters
RECURSIVE Remove(_, _)
Remove(s, old) ==
    IF old = <<>> \/ Len(s) < Len(old) THEN s
    ELSE IF OccursAt(s, old, 1)
         THEN Remove(SubSeq(s, Len(old) + 1, Len(s)), old)
         ELSE <<Head(s)>> \o Remove(Tail(s), old)

None == [some |-> FALSE, val |-> <<>>]
Some(v) == [some |-> TRUE, val |-> v]

----------------------------------------------------------------------------
(* get_unversioned_compiler_name *)

NoneWord == <<"n", "o", "n", "e">>
EmptyParens == <<"(", ")">>

\* the function with the last removal forgotten
get_unversioned_compiler_name_keepParens(name, ver) ==
    Strip(Remove(Remove(name, ver), NoneWord))

get_unversioned_compiler_name(name, ver) ==
    Strip(Remove(Remove(Remove(name, ver), NoneWord), EmptyParens))

StripAlphabet == {"n", "o", "e", "(", ")", " "}

DisplayNames ==
    StringsUpTo(StripAlphabet, MaxDisplayLen) \cup {Gcc122, ClangTrunk}

Semvers ==
    StringsUpTo(StripAlphabet, MaxSemverLen) \cup {Semver122, SemverTrunk}

StripIdle ==
    /\ compiler_name = <<>>
    /\ semver = <<>>
    /\ unversioned = <<>>

StripInit ==
    /\ compiler_name \in DisplayNames
    /\ semver \in Semvers
    /\ unversioned = <<>>

\* the function applied to the drawn name
StripOnce ==
    /\ unversioned = <<>>
    /\ unversioned' = <<get_unversioned_compiler_name(compiler_name, semver)>>
    /\ UNCHANGED <<compiler_name, semver, inferVars, toolVars>>

\* the function applied to its own result, with the same version token
StripAgain ==
    /\ Len(unversioned) = 1
    /\ unversioned' =
         Append(unversioned, get_unversioned_compiler_name(unversioned[1], semver))
    /\ UNCHANGED <<compiler_name, semver, inferVars, toolVars>>

----------------------------------------------------------------------------
(* infer_compiler_id *)

\* next(...) over a generator: the least index that qualifies
FirstIndex(S) == CHOOSE i \in S : \A j \in S : i <= j

\* the lookup with the name tried before the id
infer_compiler_id_nameFirst(ref, compilers) ==
    LET hits == {i \in 1..Len(compilers) :
                   Strip(Lower(compilers[i].name)) = Strip(Lower(ref))}
    IN IF hits # {} THEN Some(compilers[FirstIndex(hits)].id)
       ELSE IF \E i \in 1..Len(compilers) : compilers[i].id = ref
            THEN Some(ref)
            ELSE None

\* the lookup with the names compared as they are
infer_compiler_id_caseSensitive(ref, compilers) ==
    IF \E i \in 1..Len(compilers) : compilers[i].id = ref
    THEN Some(ref)
    ELSE LET hits == {i \in 1..Len(compilers) :
                        Strip(compilers[i].name) = Strip(ref)}
         IN IF hits = {} THEN None ELSE Some(compilers[FirstIndex(hits)].id)

\* the lookup with the last matching name winning
infer_compiler_id_lastMatch(ref, compilers) ==
    IF \E i \in 1..Len(compilers) : compilers[i].id = ref
    THEN Some(ref)
    ELSE LET hits == {i \in 1..Len(compilers) :
                        Strip(Lower(compilers[i].name)) = Strip(Lower(ref))}
         IN IF hits = {} THEN None
            ELSE Some(compilers[CHOOSE i \in hits : \A j \in hits : j <= i].id)

infer_compiler_id(ref, compilers) ==
    IF \E i \in 1..Len(compilers) : compilers[i].id = ref
    THEN Some(ref)
    ELSE LET hits == {i \in 1..Len(compilers) :
                        Strip(Lower(compilers[i].name)) = Strip(Lower(ref))}
         IN IF hits = {} THEN None
            ELSE Some(compilers[FirstIndex(hits)].id)

\* compiler ids drawn: they collide with the references below
InferIds == {<<>>, <<"g">>, <<"G">>}

\* names and references drawn: letter case, whitespace on either side, and
\* a name the shorter ones are a prefix of
InferNames ==
    {<<>>, <<"g">>, <<"G">>, <<" ", "G">>, <<"g", " ">>, <<"g", "g">>}

Descriptors == [id : InferIds, name : InferNames]

CompilerLists == UNION {[1..k -> Descriptors] : k \in 0..MaxCompilers}

InferIdle ==
    /\ compiler_name_or_id = <<>>
    /\ known = <<>>
    /\ inferred = <<>>

InferInit ==
    /\ compiler_name_or_id \in InferNames
    /\ known \in CompilerLists
    /\ inferred = <<>>

Infer ==
    /\ inferred = <<>>
    /\ inferred' = <<infer_compiler_id(compiler_name_or_id, known)>>
    /\ UNCHANGED <<compiler_name_or_id, known, stripVars, toolVars>>

----------------------------------------------------------------------------
(* CompilerExplorerClient._make_request *)

\* CompilerExplorerError.__init__: status_code defaults to 500
DefaultStatus == 500

CompilerExplorerError(message, status_code) ==
    [class |-> "CompilerExplorerError", message |-> message,
     status |-> status_code]

\* what the remote service and the transport can do to one request
RemoteStatuses == {404, 500, 503}
Ok == [kind |-> "ok", status |-> 200]
Failures ==
    {[kind |-> "timeout", status |-> 0],
     [kind |-> "transport", status |-> 0],
     [kind |-> "badjson", status |-> 200]}
        \cup {[kind |-> "status", status |-> st] : st \in RemoteStatuses}
Replies == {Ok} \cup Failures

\* the exception the body of the try statement ends with: the transport's
\* own, raise_for_status()'s, or the one the inner handler raises for a
\* body that is not JSON
TryBodyRaises(reply) ==
    CASE reply.kind = "timeout" ->
            [class |-> "TimeoutException", message |-> <<"<timeout>">>,
             status |-> 0]
      [] reply.kind = "status" ->
            [class |-> "HTTPStatusError", message |-> <<"<status line>">>,
             status |-> reply.status]
      [] reply.kind = "badjson" ->
            CompilerExplorerError(
                <<"Invalid JSON response: ", "<decode error>">>, DefaultStatus)
      [] OTHER ->
            [class |-> "Exception", message |-> <<"<transport error>">>,
             status |-> 0]

\* the except clauses in their order; the last catches every Exception,
\* the CompilerExplorerError raised in the try body included
ExceptClauses(exc) ==
    CASE exc.class = "TimeoutException" ->
            CompilerExplorerError(<<"Request timed out">>, DefaultStatus)
      [] exc.class = "HTTPStatusError" ->
            CompilerExplorerError(
                <<"HTTP error occurred: ">> \o exc.message, exc.status)
      [] OTHER ->
            CompilerExplorerError(
                <<"Unexpected error: ">> \o exc.message, DefaultStatus)

\* <<>> when the parsed JSON is returned, <<e>> when e is raised
_make_request(reply) ==
    IF reply.kind = "ok" THEN <<>> ELSE <<ExceptClauses(TryBodyRaises(reply))>>

Unanswered == [kind |-> "none", status |-> 0]

\* the request as the log of outbound requests keeps it
Request(method, endpoint, language, compiler) ==
    [method |-> method, endpoint |-> endpoint, language |-> language,
     compiler |-> compiler, state |-> "pending", reply |-> Unanswered]

\* the pending request answered
Settle(reqs, reply) ==
    [reqs EXCEPT ![Len(reqs)].state = IF reply.kind = "ok" THEN "ok" ELSE "failed",
                 ![Len(reqs)].reply = reply]

----------------------------------------------------------------------------
(* What the remote service answers with *)

Languages == {"", "cpp"}
LanguageLists == {<<>>, <<"c++", "rust">>}

\* the descriptors of a listing: the documented ones, one whose id is
\* another's folded name, and one whose id is the empty string
Catalog ==
    {[id |-> Gcc122, name |-> GccName, semver |-> Semver122],
     [id |-> IrClangTrunk, name |-> ClangTrunk, semver |-> SemverTrunk],
     [id |-> Gcc, name |-> ClangTrunk, semver |-> SemverTrunk],
     [id |-> <<>>, name |-> Gcc, semver |-> <<>>]}

Listings == UNION {[1..k -> Catalog] : k \in 0..MaxCompilers}

\* the compiler references a caller passes
References ==
    {Gcc122, Gcc, <<" ">> \o Lower(GccName) \o <<" ">>, ClangTrunk,
     <<"r", "u", "s", "t", "c">>}

\* regular expressions without metacharacters
Patterns == {<<>>, Gcc, <<"T", "r", "u", "n", "k">>}

CompilationResults == {[code |-> 0], [code |-> 1]}

\* opcode documentation records: any fields among these
DocKeys == {"html", "tooltip", "url"}
Docs == UNION {[K -> {"a", "b"}] : K \in SUBSET DocKeys}

Range(f) == {f[i] : i \in DOMAIN f}

----------------------------------------------------------------------------
(* The tools *)

Running == [kind |-> "running", status |-> 0, detail |-> <<>>]
Returned == [kind |-> "returned", status |-> 0, detail |-> <<>>]
HTTPException(status_code, detail) ==
    [kind |-> "HTTPException", status |-> status_code, detail |-> detail]
\* an exception no handler of the tool catches
Escapes(class, status_code, detail) ==
    [kind |-> class, status |-> status_code, detail |-> detail]

NoArgs == [language |-> "", compiler |-> <<>>, pattern |-> <<>>]

ToolIdle ==
    /\ tool = "idle"
    /\ pc = "idle"
    /\ args = NoArgs
    /\ requests = <<>>
    /\ raised = <<>>
    /\ fetched = <<>>
    /\ ctx_log = <<>>
    /\ outcome = Running
    /\ returned = <<>>

\* the tool ends by returning v
Return(v) ==
    /\ pc' = "done"
    /\ outcome' = Returned
    /\ returned' = <<v>>

\* the tool ends with exception exc
Raise(exc) ==
    /\ pc' = "done"
    /\ outcome' = exc
    /\ returned' = <<>>

\* except CompilerExplorerError as e: raise HTTPException(e.status_code, str(e))
Translate(e) == HTTPException(e.status, e.message)

\* a tool without the except clause
NoTranslate(e) == Escapes(e.class, e.status, e.message)

\* the tool called: its first request goes out
Call(name, a, req, at) ==
    /\ pc = "idle"
    /\ tool' = name
    /\ args' = a
    /\ requests' = <<req>>
    /\ pc' = at
    /\ UNCHANGED <<raised, fetched, ctx_log, outcome, returned>>

\* --- list_languages

list_languages_called ==
    /\ Call("list_languages", NoArgs,
            Request("GET", "languages", "", <<>>), "await_languages")
    /\ UNCHANGED <<stripVars, inferVars>>

list_languages_answered ==
    /\ pc = "await_languages"
    /\ tool = "list_languages"
    /\ \E reply \in Replies, v \in LanguageLists :
          LET e == _make_request(reply)
          IN /\ requests' = Settle(requests, reply)
             /\ raised' = e
             /\ IF e = <<>>
                THEN fetched' = Append(fetched, v) /\ Return(v)
                ELSE fetched' = fetched /\ Raise(Translate(e[1]))
    /\ UNCHANGED <<tool, args, ctx_log, stripVars, inferVars>>

\* --- list_compilers_for_language

list_compilers_for_language_called ==
    /\ \E language \in Languages :
          Call("list_compilers_for_language",
               [NoArgs EXCEPT !.language = language],
               Request("GET", "compilers", language, <<>>), "await_compilers")
    /\ UNCHANGED <<stripVars, inferVars>>

list_compilers_for_language_answered ==
    /\ pc = "await_compilers"
    /\ tool = "list_compilers_for_language"
    /\ \E reply \in Replies, compilers \in Listings :
          LET e == _make_request(reply)
          IN /\ requests' = Settle(requests, reply)
             /\ raised' = e
             /\ IF e = <<>>
                THEN /\ fetched' = Append(fetched, compilers)
                     /\ Return({get_unversioned_compiler_name(c.name, c.semver) :
                                   c \in Range(compilers)})
                ELSE fetched' = fetched /\ Raise(Translate(e[1]))
    /\ UNCHANGED <<tool, args, ctx_log, stripVars, inferVars>>

\* --- list_compiler_versions

\* re.search(pattern, s, re.IGNORECASE) for a pattern without metacharacters
Search(pattern, str) ==
    pattern = <<>> \/ Contains(Lower(str), Lower(pattern))

list_compiler_versions_called ==
    /\ \E compiler_regex \in Patterns :
          Call("list_compiler_versions",
               [NoArgs EXCEPT !.pattern = compiler_regex],
               Request("GET", "compilers", "", <<>>), "await_compilers")
    /\ UNCHANGED <<stripVars, inferVars>>

list_compiler_versions_answered ==
    /\ pc = "await_compilers"
    /\ tool = "list_compiler_versions"
    /\ \E reply \in Replies, compilers \in Listings :
          LET e == _make_request(reply)
              Matches(c) == Search(args.pattern, c.name) \/ Search(args.pattern, c.id)
          IN /\ requests' = Settle(requests, reply)
             /\ raised' = e
             /\ IF e = <<>>
                THEN /\ fetched' = Append(fetched, compilers)
                     /\ Return(SelectSeq(compilers, Matches))
                ELSE fetched' = fetched /\ Raise(NoTranslate(e[1]))
    /\ UNCHANGED <<tool, args, ctx_log, stripVars, inferVars>>

\* --- compile_code

NotFoundStatus == 404

NotFoundDetail(compiler) == <<"Compiler '">> \o compiler \o <<"' not found">>

\* `not compiler_id`: None and the empty string are both falsy
Falsy(compiler_id) == ~compiler_id.some \/ compiler_id.val = <<>>

compile_code_called ==
    /\ \E language \in Languages, compiler \in References :
          Call("compile_code",
               [NoArgs EXCEPT !.language = language, !.compiler = compiler],
               Request("GET", "compilers", language, <<>>), "await_compilers")
    /\ UNCHANGED <<stripVars, inferVars>>

\* the handler with the listing's failure swallowed: it submits the
\* reference as it was given
compile_code_listed_fallback ==
    /\ pc = "await_compilers"
    /\ tool = "compile_code"
    /\ \E reply \in Replies, compilers \in Listings :
          LET e == _make_request(reply)
              compiler_id == IF e = <<>>
                             THEN infer_compiler_id(args.compiler, compilers)
                             ELSE Some(args.compiler)
          IN /\ raised' = e
             /\ fetched' = IF e = <<>> THEN Append(fetched, compilers) ELSE fetched
             /\ IF Falsy(compiler_id)
                THEN /\ requests' = Settle(requests, reply)
                     /\ ctx_log' = Append(ctx_log,
                            [level |-> "error",
                             message |-> NotFoundDetail(args.compiler)])
                     /\ Raise(HTTPException(NotFoundStatus,
                                            NotFoundDetail(args.compiler)))
                ELSE /\ ctx_log' = Append(ctx_log,
                            [level |-> "info",
                             message |-> <<"Inferred compiler ">> \o compiler_id.val
                                 \o <<" from ">> \o args.compiler
                                 \o <<". Compiling...">>])
                     /\ requests' = Append(Settle(requests, reply),
                            Request("POST", "compile", "", compiler_id.val))
                     /\ pc' = "await_compile"
                     /\ UNCHANGED <<outcome, returned>>
    /\ UNCHANGED <<tool, args, stripVars, inferVars>>

\* the listing answered: the reference is resolved and the compilation
\* submitted, or the tool ends
compile_code_listed ==
    /\ pc = "await_compilers"
    /\ tool = "compile_code"
    /\ \E reply \in Replies, compilers \in Listings :
          LET e == _make_request(reply)
              compiler_id == infer_compiler_id(args.compiler, compilers)
          IN /\ requests' = IF e = <<>> /\ ~Falsy(compiler_id)
                            THEN Append(Settle(requests, reply),
                                   Request("POST", "compile", "", compiler_id.val))
                            ELSE Settle(requests, reply)
             /\ raised' = e
             /\ IF e # <<>>
                THEN /\ fetched' = fetched
                     /\ ctx_log' = ctx_log
                     /\ Raise(Translate(e[1]))
                ELSE /\ fetched' = Append(fetched, compilers)
                     /\ IF Falsy(compiler_id)
                        THEN /\ ctx_log' = Append(ctx_log,
                                    [level |-> "error",
                                     message |-> NotFoundDetail(args.compiler)])
                             /\ Raise(HTTPException(NotFoundStatus,
                                                    NotFoundDetail(args.compiler)))
                        ELSE /\ ctx_log' = Append(ctx_log,
                                    [level |-> "info",
                                     message |-> <<"Inferred compiler ">>
                                         \o compiler_id.val \o <<" from ">>
                                         \o args.compiler \o <<". Compiling...">>])
                             /\ pc' = "await_compile"
                             /\ UNCHANGED <<outcome, returned>>
    /\ UNCHANGED <<tool, args, stripVars, inferVars>>

\* the compilation answered
compile_code_compiled ==
    /\ pc = "await_compile"
    /\ tool = "compile_code"
    /\ \E reply \in Replies, v \in CompilationResults :
          LET e == _make_request(reply)
          IN /\ requests' = Settle(requests, reply)
             /\ raised' = e
             /\ IF e = <<>>
                THEN fetched' = Append(fetched, v) /\ Return(v)
                ELSE fetched' = fetched /\ Raise(Translate(e[1]))
    /\ UNCHANGED <<tool, args, ctx_log, stripVars, inferVars>>

\* --- get_opcode_documentation

\* dict.pop(key) on a dict that has the key: the dict without it
Pop(d, key) == [k \in DOMAIN d \ {key} |-> d[k]]

get_opcode_documentation_called ==
    /\ Call("get_opcode_documentation", NoArgs,
            Request("GET", "asm", "", <<>>), "await_asm")
    /\ UNCHANGED <<stripVars, inferVars>>

get_opcode_documentation_answered ==
    /\ pc = "await_asm"
    /\ tool = "get_opcode_documentation"
    /\ \E reply \in Replies, resp \in Docs :
          LET e == _make_request(reply)
          IN /\ requests' = Settle(requests, reply)
             /\ raised' = e
             /\ IF e # <<>>
                THEN fetched' = fetched /\ Raise(NoTranslate(e[1]))
                ELSE /\ fetched' = Append(fetched, resp)
                     /\ IF "html" \in DOMAIN resp
                        THEN Return(Pop(resp, "html"))
                        ELSE Raise(Escapes("KeyError", 0, <<"html">>))
    /\ UNCHANGED <<tool, args, ctx_log, stripVars, inferVars>>

\* the outcome is delivered; invocations share no state
NextInvocation ==
    /\ pc = "done"
    /\ tool' = "idle"
    /\ pc' = "idle"
    /\ args' = NoArgs
    /\ requests' = <<>>
    /\ raised' = <<>>
    /\ fetched' = <<>>
    /\ ctx_log' = <<>>
    /\ outcome' = Running
    /\ returned' = <<>>
    /\ UNCHANGED <<stripVars, inferVars>>

----------------------------------------------------------------------------
(* Specifications *)

StripNext == StripOnce \/ StripAgain
StripStart == StripInit /\ InferIdle /\ ToolIdle
SpecStrip == StripStart /\ [][StripNext]_vars

InferNext == Infer
InferStart == InferInit /\ StripIdle /\ ToolIdle
SpecInfer == InferStart /\ [][InferNext]_vars

Init == StripIdle /\ InferIdle /\ ToolIdle
Next ==
    \/ list_languages_called
    \/ list_languages_answered
    \/ list_compilers_for_language_called
    \/ list_compilers_for_language_answered
    \/ list_compiler_versions_called
    \/ list_compiler_versions_answered
    \/ compile_code_called
    \/ compile_code_listed
    \/ compile_code_compiled
    \/ get_opcode_documentation_called
    \/ get_opcode_documentation_answered
    \/ NextInvocation
Spec == Init /\ [][Next]_vars

----------------------------------------------------------------------------
(* Properties of get_unversioned_compiler_name (under SpecStrip) *)

\* whether a second pass still finds something to remove in r
NothingLeftToRemove(r, ver) ==
    /\ ~(ver # <<>> /\ Contains(r, ver))
    /\ ~Contains(r, NoneWord)
    /\ ~Contains(r, EmptyParens)

\* C5, as claimed: applying the function to its own result, with the same
\* version token, gives that result again.
C5_Idempotent ==
    Len(unversioned) = 2 => unversioned[2] = unversioned[1]

\* C5, amended: the second application gives the first result again exactly
\* when the first result holds no occurrence of the (non-empty) version
\* token, of "none" or of "()".  A removal can join the text around it into
\* a new occurrence, which only the second application removes.
C5_IdempotentWhenNothingLeft ==
    Len(unversioned) = 2 =>
        (unversioned[2] = unversioned[1]
            <=> NothingLeftToRemove(unversioned[1], semver))

\* C5 witness: something was removed by the first application, nothing is
\* left for the second, and the second returns the first result.
C5_Witness ==
    /\ Len(unversioned) = 2
    /\ semver # <<>>
    /\ Contains(compiler_name, semver)
    /\ unversioned[1] # <<>>
    /\ NothingLeftToRemove(unversioned[1], semver)
    /\ unversioned[2] = unversioned[1]

\* C6, as claimed: "gcc-12.2" with version token "12.2" gives exactly "gcc".
C6_GccExample ==
    (compiler_name = Gcc122 /\ semver = Semver122 /\ unversioned # <<>>)
        => unversioned[1] = Gcc

----------------------------------------------------------------------------
(* Properties of infer_compiler_id (under SpecInfer) *)

\* a name or reference case-folded and whitespace-trimmed
Folded(s) == Lower(Strip(s))

\* entry i's name equals the reference up to letter case and surrounding
\* whitespace
NameMatches(i) == Folded(known[i].name) = Folded(compiler_name_or_id)

IsSomeId == \E i \in 1..Len(known) : known[i].id = compiler_name_or_id

\* C1, as claimed: a query that differs from D.name only in letter case and
\* surrounding whitespace resolves to D.id, whatever else the list holds.
C1_NameResolvesToItsId ==
    inferred # <<>> =>
        \A i \in 1..Len(known) :
            NameMatches(i) => inferred[1] = Some(known[i].id)

\* C1, amended: such a query resolves to D.id exactly when it is D.id
\* itself, or it is no id of the list and the first entry of the list with
\* that folded name has D's id.  Otherwise the id equal to the query, or
\* the id of the first entry of that name, is returned.
C1_NameResolvesUnlessShadowed ==
    inferred # <<>> =>
        \A i \in 1..Len(known) :
            NameMatches(i) =>
                (inferred[1] = Some(known[i].id)
                    <=> \/ compiler_name_or_id = known[i].id
                        \/ /\ ~IsSomeId
                           /\ \E j \in 1..i :
                                  /\ NameMatches(j)
                                  /\ \A k \in 1..(j - 1) : ~NameMatches(k)
                                  /\ known[j].id = known[i].id)

\* C1 witness: the query differs from D's name (in case or whitespace), is
\* not an id, D is the first entry of that name, and D's id is returned.
C1_Witness ==
    /\ inferred # <<>>
    /\ ~IsSomeId
    /\ \E i \in 1..Len(known) :
          /\ NameMatches(i)
          /\ Strip(compiler_name_or_id) # <<>>
          /\ known[i].name # compiler_name_or_id
          /\ \A j \in 1..(i - 1) : ~NameMatches(j)
          /\ inferred[1] = Some(known[i].id)

\* C7: a reference equal to the id of a listed compiler resolves to that
\* id, also when an earlier entry's name equals it case-insensitively.
C7_IdResolvesToItself ==
    inferred # <<>> =>
        \A i \in 1..Len(known) :
            known[i].id = compiler_name_or_id => inferred[1] = Some(known[i].id)

\* C7 witness: the reference is the id of the second entry while the first
\* entry, of another id, has a name equal to it up to case.
C7_Witness ==
    /\ inferred # <<>>
    /\ Len(known) >= 2
    /\ compiler_name_or_id # <<>>
    /\ known[2].id = compiler_name_or_id
    /\ known[1].id # compiler_name_or_id
    /\ known[1].name # compiler_name_or_id
    /\ NameMatches(1)
    /\ inferred[1] = Some(compiler_name_or_id)

----------------------------------------------------------------------------
(* Properties of the client and the tools (under Spec) *)

LastRequest == requests[Len(requests)]

\* C2, as claimed: whenever the client call of a tool fails with a
\* CompilerExplorerError, the tool fails with an HTTPException carrying
\* that error's status code and message.
C2_ClientErrorTranslated ==
    (pc = "done" /\ raised # <<>>) =>
        outcome = HTTPException(raised[1].status, raised[1].message)

\* C3, as claimed: the error _make_request raises is fixed by the failure
\* class: a timeout gives "Request timed out" and 500, a remote status s
\* gives "HTTP error occurred: ..." and s, a body that is not JSON gives
\* "Invalid JSON response: ..." and 500, any other failure gives
\* "Unexpected error: ..." and 500.
C3_ErrorFixedByFailureClass ==
    raised # <<>> =>
        LET e == raised[1]
            reply == LastRequest.reply
        IN /\ Len(raised) = 1
           /\ e.class = "CompilerExplorerError"
           /\ reply.kind = "timeout" =>
                 e.message = <<"Request timed out">> /\ e.status = 500
           /\ reply.kind = "status" =>
                 Head(e.message) = "HTTP error occurred: " /\ e.status = reply.status
           /\ reply.kind = "badjson" =>
                 Head(e.message) = "Invalid JSON response: " /\ e.status = 500
           /\ reply.kind = "transport" =>
                 Head(e.message) = "Unexpected error: " /\ e.status = 500

\* C4, as claimed: in compile_code, once the listing is fetched, a
\* reference that resolves to no listed compiler ends the tool with a 404
\* naming the reference and no compilation submitted, and a reference that
\* resolves to a listed compiler has its compilation submitted with the
\* resolved id, without that 404.
C4_NotFoundOrSubmitted ==
    (tool = "compile_code" /\ fetched # <<>>) =>
        LET resolved == infer_compiler_id(args.compiler, fetched[1])
            notFound == HTTPException(404, NotFoundDetail(args.compiler))
        IN IF resolved.some
           THEN /\ Len(requests) = 2
                /\ requests[2].endpoint = "compile"
                /\ requests[2].compiler = resolved.val
                /\ outcome # notFound
           ELSE /\ Len(requests) = 1
                /\ pc = "done"
                /\ outcome = notFound
                /\ returned = <<>>

\* C8, as claimed: every documentation record fetched is returned without
\* its "html" field and with every other field unchanged.
C8_MarkupStripped ==
    (tool = "get_opcode_documentation" /\ pc = "done" /\ fetched # <<>>) =>
        /\ outcome = Returned
        /\ Len(returned) = 1
        /\ DOMAIN returned[1] = DOMAIN fetched[1] \ {"html"}
        /\ \A k \in DOMAIN returned[1] : returned[1][k] = fetched[1][k]

SingleRequestTools ==
    {"list_languages", "list_compilers_for_language", "list_compiler_versions",
     "get_opcode_documentation"}

\* C10: a tool issues at most one request, compile_code at most two: the
\* listing, then the compilation, submitted only after the listing
\* succeeded.  A failed request is the invocation's last one, and the
\* invocation has ended with an exception.
C10_RequestsPerInvocation ==
    /\ tool = "idle" => requests = <<>>
    /\ tool \in SingleRequestTools => Len(requests) <= 1
    /\ tool = "compile_code" =>
          /\ Len(requests) <= 2
          /\ Len(requests) >= 1 => requests[1].endpoint = "compilers"
          /\ Len(requests) = 2 =>
                /\ requests[1].state = "ok"
                /\ requests[2].endpoint = "compile"
                /\ requests[2].method = "POST"
    /\ \A i \in 1..Len(requests) :
          /\ requests[i].state = "pending" => i = Len(requests) /\ pc # "done"
          /\ requests[i].state = "failed" =>
                /\ i = Len(requests)
                /\ pc = "done"
                /\ outcome.kind \notin {"running", "returned"}
                /\ returned = <<>>

\* C10 witness: compile_code has issued both requests, the submission
\* failed, and the invocation ended with the error.
C10_Witness ==
    /\ tool = "compile_code"
    /\ Len(requests) = 2
    /\ requests[1].state = "ok"
    /\ requests[2].state = "failed"
    /\ pc = "done"
    /\ outcome.kind = "HTTPException"

====
